---- MODULE Spec2Model ----
(***************************************************************************)
(* Model of src/typing/inference.rs: the type algebra (ftv, apply, mgu,    *)
(* compose), the inference engine (gen_name, instantiate_op, augment_op_*, *)
(* chain, infer, infer_op, inf_vs_ann, typecheck).                         *)
(*                                                                         *)
(* Types are records tagged by k: Mono, Poly, App, Op.  An OpType is a     *)
(* record [pre, post] of sequences of types.  A Subst is a function from a *)
(* finite set of variable names to types.  A Result is [ok |-> TRUE, val]  *)
(* or [ok |-> FALSE, err].                                                 *)
(***************************************************************************)
EXTENDS Integers, Sequences, FiniteSets, TLC

VARIABLES
    call,      \* the pure function under test and its arguments
    ret,       \* its return value, or NotReturned
    counter,   \* Inference.counter (AtomicUsize)
    todo,      \* op_defs the typecheck loop has not visited yet
    workers,   \* per definition being checked: the values its fetch_add calls returned
    verdict,   \* per visited definition: the Result of its check
    result     \* what typecheck returned, or NotReturned

vars == <<call, ret, counter, todo, workers, verdict, result>>

NotReturned == [ok |-> FALSE, err |-> [kind |-> "NotReturned"]]

----------------------------------------------------------------------------
(* Type, OpType, Result                                                     *)

Mono(n) == [k |-> "Mono", name |-> n]
Poly(v) == [k |-> "Poly", name |-> v]
App(t1, t2) == [k |-> "App", lhs |-> t1, rhs |-> t2]
OpT(o) == [k |-> "Op", op |-> o]
OpType(pre, post) == [pre |-> pre, post |-> post]
OpTypeEmpty == OpType(<<>>, <<>>)

Ok(v) == [ok |-> TRUE, val |-> v]
Err(e) == [ok |-> FALSE, err |-> e]

OccursCheck(v) == [kind |-> "OccursCheck", name |-> v]
UnificationError(t1, t2) == [kind |-> "UnificationError", t1 |-> t1, t2 |-> t2]
ListMGULengthDifferent == [kind |-> "ListMGULengthDifferent"]
AnnInfConflict(inf, ann) == [kind |-> "AnnInfConflict", inf |-> inf, ann |-> ann]
UnknownOp(n) == [kind |-> "UnknownOp", name |-> n]
UnknownConstructor(n) == [kind |-> "UnknownConstructor", name |-> n]
NotAllConstructorsCovered == [kind |-> "NotAllConstructorsCovered"]

----------------------------------------------------------------------------
(* Subst and the Typeable trait                                             *)

\* let v = x in F(v), with x evaluated once
Bind(x, F(_)) == CHOOSE y \in {F(v) : v \in {x}} : TRUE

EmptySubst == [v \in {} |-> Mono("")]
Singleton(v, t) == [x \in {v} |-> t]

RECURSIVE ftv_Type(_), ftv_OpType(_), ftv_Vec(_)
ftv_Type(t) ==
    CASE t.k = "Mono" -> {}
      [] t.k = "Poly" -> {t.name}
      [] t.k = "Op"   -> ftv_OpType(t.op)
      [] t.k = "App"  -> ftv_Type(t.lhs) \cup ftv_Type(t.rhs)

ftv_Vec(ts) == UNION {ftv_Type(ts[i]) : i \in DOMAIN ts}

ftv_OpType(o) == ftv_Vec(o.pre) \cup ftv_Vec(o.post)

RECURSIVE apply_Type(_, _), apply_OpType(_, _), apply_Vec(_, _)
apply_Type(t, subst) ==
    CASE t.k = "Mono" -> t
      [] t.k = "Poly" -> IF t.name \in DOMAIN subst THEN subst[t.name] ELSE Poly(t.name)
      [] t.k = "Op"   -> OpT(apply_OpType(t.op, subst))
      [] t.k = "App"  -> App(apply_Type(t.lhs, subst), apply_Type(t.rhs, subst))

apply_Vec(ts, subst) == [i \in DOMAIN ts |-> apply_Type(ts[i], subst)]

apply_OpType(o, subst) == OpType(apply_Vec(o.pre, subst), apply_Vec(o.post, subst))

\* compose without s2 applied to the right-hand sides of s1
compose_unapplied(s1, s2) ==
    [v \in DOMAIN s1 \cup DOMAIN s2 |-> IF v \in DOMAIN s2 THEN s2[v] ELSE s1[v]]

\* s1's right-hand sides with s2 applied, then extended with s2 (HashMap::extend
\* overwrites: on a key of both, s2's binding stays).
compose(s1, s2) ==
    [v \in DOMAIN s1 \cup DOMAIN s2 |->
        IF v \in DOMAIN s2 THEN s2[v] ELSE apply_Type(s1[v], s2)]

RECURSIVE mgu_Type(_, _), mgu_OpType(_, _), mgu_Vec(_, _), mgu_Vec_loop(_, _, _, _)
mgu_Type(t1, t2) ==
    CASE t1.k = "Mono" /\ t2.k = "Mono" /\ t1.name = t2.name -> Ok(EmptySubst)
      [] t1.k = "Poly" /\ t2.k = "Poly" /\ t1.name = t2.name -> Ok(EmptySubst)
      [] OTHER ->
        IF t1.k = "Poly" \/ t2.k = "Poly"
        THEN LET v == IF t1.k = "Poly" THEN t1.name ELSE t2.name
                 t == IF t1.k = "Poly" THEN t2 ELSE t1
             IN  IF v \in ftv_Type(t)
                 THEN Err(OccursCheck(v))
                 ELSE Ok(Singleton(v, t))
        ELSE IF t1.k = "App" /\ t2.k = "App"
        THEN Bind(mgu_Type(t1.lhs, t2.lhs), LAMBDA s1 :
                 IF ~s1.ok THEN s1
                 ELSE Bind(mgu_Type(apply_Type(t1.rhs, s1.val), apply_Type(t2.rhs, s1.val)),
                           LAMBDA s2 :
                          IF ~s2.ok THEN s2 ELSE Ok(compose(s1.val, s2.val))))
        ELSE IF t1.k = "Op" /\ t2.k = "Op"
        THEN mgu_OpType(t1.op, t2.op)
        ELSE Err(UnificationError(t1, t2))

\* the for loop of Vec::mgu from pair i on, s the substitution so far
mgu_Vec_loop(t1, t2, i, s) ==
    IF i > Len(t1) THEN Ok(s)
    ELSE Bind(mgu_Type(apply_Type(t1[i], s), apply_Type(t2[i], s)), LAMBDA ss :
             IF ~ss.ok THEN ss
             ELSE Bind(compose(s, ss.val), LAMBDA s_next :
                      mgu_Vec_loop(t1, t2, i + 1, s_next)))

mgu_Vec(t1, t2) ==
    IF Len(t1) # Len(t2) THEN Err(ListMGULengthDifferent)
    ELSE mgu_Vec_loop(t1, t2, 1, EmptySubst)

mgu_OpType(t1, t2) ==
    Bind(mgu_Vec(t1.pre, t2.pre), LAMBDA s1 :
        IF ~s1.ok THEN s1
        ELSE Bind(mgu_Vec(apply_Vec(t1.post, s1.val), apply_Vec(t2.post, s1.val)),
                  LAMBDA s2 :
                 IF ~s2.ok THEN s2 ELSE Ok(compose(s1.val, s2.val))))

----------------------------------------------------------------------------
(* Module index (ModuleConstrOpTypeMap, ModuleConstrMaps) and the prelude.  *)
(* A Module is [data_defs, op_defs]; a DataDef [params, constrs]; a         *)
(* ConstrDef [params]; an OpDef [ann, body].  Spans are left out: an        *)
(* InferenceError is modelled by its InferenceErrorMessage.                 *)

Min(a, b) == IF a < b THEN a ELSE b

\* a comparison with the whole name where the prefix was meant
starts_with_whole(s, prefix) == s = prefix

starts_with(s, prefix) ==
    Len(s) >= Len(prefix) /\ SubSeq(s, 1, Len(prefix)) = prefix

RECURSIVE fold_App(_, _, _)
fold_App(a, params, i) ==
    IF i > Len(params) THEN a
    ELSE fold_App(App(a, Poly(params[i])), params, i + 1)

constructor_names(m) == UNION {DOMAIN m.data_defs[d].constrs : d \in DOMAIN m.data_defs}

owner_of(m, c) == CHOOSE d \in DOMAIN m.data_defs : c \in DOMAIN m.data_defs[d].constrs

constr_to_optype_map(m) ==
    [c \in constructor_names(m) |->
        LET d == owner_of(m, c)
            data_def == m.data_defs[d]
        IN  OpType(data_def.constrs[c].params, <<fold_App(Mono(d), data_def.params, 1)>>)]

constr_to_data_map(m) ==
    [c \in constructor_names(m) |-> m.data_defs[owner_of(m, c)]]

prelude_types_get(name) ==
    CASE name = "dup"  -> Ok(OpType(<<Poly("a")>>, <<Poly("a"), Poly("a")>>))
      [] name = "drop" -> Ok(OpType(<<Poly("a")>>, <<>>))
      [] OTHER -> Err("None")

----------------------------------------------------------------------------
(* Inference.  The engine's only mutable state is the atomic counter.  A    *)
(* computation sees it through a context cx = [got, next, n, rev]: got are  *)
(* the values its fetch_add calls have returned so far, in order, n is the  *)
(* number of gen_name calls made, and a call beyond got continues at next   *)
(* (a run alone on the counter has got = <<>> and next = the counter).      *)
(* rev picks the iteration order of the HashSet of free variables.          *)

Ctx(got, next, rev) == [got |-> got, next |-> next, n |-> 0, rev |-> rev]

format_gen(n) == "_gen_" \o ToString(n)

fetch_add(cx) ==
    IF cx.n < Len(cx.got) THEN cx.got[cx.n + 1] ELSE cx.next + (cx.n - Len(cx.got))

gen_name(cx) ==
    [val |-> Poly(format_gen(fetch_add(cx))), cx |-> [cx EXCEPT !.n = @ + 1]]

RECURSIVE SetToSeq(_)
SetToSeq(S) ==
    IF S = {} THEN <<>>
    ELSE LET x == CHOOSE y \in S : TRUE IN <<x>> \o SetToSeq(S \ {x})

Reverse(q) == [i \in DOMAIN q |-> q[Len(q) + 1 - i]]

HashSetIter(S, rev) == IF rev THEN Reverse(SetToSeq(S)) ELSE SetToSeq(S)

RECURSIVE instantiate_loop(_, _, _, _)
instantiate_loop(vs, i, subst, cx) ==
    IF i > Len(vs) THEN [val |-> subst, cx |-> cx]
    ELSE Bind(gen_name(cx), LAMBDA g :
             instantiate_loop(vs, i + 1,
                 [v \in DOMAIN subst \cup {vs[i]} |-> IF v = vs[i] THEN g.val ELSE subst[v]],
                 g.cx))

instantiate_op(op, cx) ==
    Bind(instantiate_loop(HashSetIter(ftv_OpType(op), cx.rev), 1, EmptySubst, cx),
         LAMBDA new_var_subst :
        [val |-> apply_OpType(op, new_var_subst.val), cx |-> new_var_subst.cx])

RECURSIVE augment_op_ow(_, _, _)
augment_op_ow(general, concrete, cx) ==
    IF Len(general.pre) < Len(concrete.pre) /\ Len(general.post) < Len(concrete.post)
    THEN Bind(gen_name(cx), LAMBDA new_var :
             augment_op_ow(
                 OpType(Append(general.pre, new_var.val), Append(general.post, new_var.val)),
                 concrete, new_var.cx))
    ELSE [val |-> general, cx |-> cx]

augment_op_bw(o1, o2, cx) ==
    Bind(augment_op_ow(o1, o2, cx), LAMBDA a1 :
        Bind(augment_op_ow(o2, a1.val, a1.cx), LAMBDA a2 :
            [val |-> <<a1.val, a2.val>>, cx |-> a2.cx]))

\* inf_vs_ann taking every binding of an annotation variable for a conflict
inf_vs_ann_any_binding(inf, ann, cx) ==
    Bind(augment_op_ow(inf, ann, cx), LAMBDA a :
        Bind(mgu_OpType(a.val, ann), LAMBDA s :
            IF ~s.ok THEN [res |-> s, cx |-> a.cx]
            ELSE IF \E v \in ftv_OpType(ann) : v \in DOMAIN s.val
            THEN [res |-> Err(AnnInfConflict(a.val, ann)), cx |-> a.cx]
            ELSE [res |-> Ok(<<>>), cx |-> a.cx]))

inf_vs_ann(inf, ann, cx) ==
    Bind(augment_op_ow(inf, ann, cx), LAMBDA a :
        Bind(mgu_OpType(a.val, ann), LAMBDA s :
            IF ~s.ok THEN [res |-> s, cx |-> a.cx]
            ELSE IF \E v \in ftv_OpType(ann) :
                        v \in DOMAIN s.val /\ s.val[v].k # "Poly"
            THEN [res |-> Err(AnnInfConflict(a.val, ann)), cx |-> a.cx]
            ELSE [res |-> Ok(<<>>), cx |-> a.cx]))

lit_optype(lit) == OpType(<<>>, <<Mono("Int")>>)

make_destr(constr) == OpType(constr.post, constr.pre)

MapGet(map, key) == IF key \in DOMAIN map THEN Ok(map[key]) ELSE Err("None")

lookup_constructor_optype(m, name) == MapGet(constr_to_optype_map(m), name)

lookup_constructor_data_def(m, name) == MapGet(constr_to_data_map(m), name)

get_user_optype(m, name) ==
    IF name \in DOMAIN m.op_defs THEN Ok(m.op_defs[name].ann) ELSE Err("None")

lookup_op_optype(m, name) ==
    Bind(prelude_types_get(name), LAMBDA prelude :
        IF prelude.ok THEN prelude
        ELSE Bind(lookup_constructor_optype(m, name), LAMBDA constr :
                 IF constr.ok THEN constr ELSE get_user_optype(m, name)))

\* chain without the unifier applied to the signature it builds
chain_unapplied(ot1, ot2) ==
    Bind(mgu_Vec(SubSeq(ot1.post, 1, Min(Len(ot1.post), Len(ot2.pre))),
                 SubSeq(ot2.pre, 1, Min(Len(ot1.post), Len(ot2.pre)))), LAMBDA s :
        IF ~s.ok THEN s
        ELSE IF Len(ot1.post) >= Len(ot2.pre)
        THEN Ok(OpType(ot1.pre,
                       ot2.post \o SubSeq(ot1.post, Len(ot2.pre) + 1, Len(ot1.post))))
        ELSE Ok(OpType(ot1.pre \o SubSeq(ot2.pre, Len(ot1.post) + 1, Len(ot2.pre)),
                       ot2.post)))

chain(ot1, ot2) ==
    LET alpha == ot1.pre
        beta == ot1.post
        gamma == ot2.pre
        delta == ot2.post
        l == Min(Len(beta), Len(gamma))
    IN  Bind(mgu_Vec(SubSeq(beta, 1, l), SubSeq(gamma, 1, l)), LAMBDA s :
            IF ~s.ok THEN s
            ELSE IF Len(beta) >= Len(gamma)
            THEN Ok(apply_OpType(
                     OpType(alpha, delta \o SubSeq(beta, Len(gamma) + 1, Len(beta))), s.val))
            ELSE Ok(apply_OpType(
                     OpType(alpha \o SubSeq(gamma, Len(beta) + 1, Len(gamma)), delta), s.val)))

RECURSIVE infer(_, _, _), infer_loop(_, _, _, _, _), infer_op(_, _, _),
          infer_case_arm(_, _, _), case_loop(_, _, _, _, _)

infer_case_arm(arm, m, cx) ==
    Bind(lookup_constructor_optype(m, arm.constr), LAMBDA constr_ot :
        IF ~constr_ot.ok
        THEN [res |-> Err(UnknownConstructor(arm.constr)), cx |-> cx]
        ELSE Bind(infer(arm.body, m, cx), LAMBDA body_optype :
            IF ~body_optype.res.ok THEN body_optype
            ELSE Bind(instantiate_op(make_destr(constr_ot.val), body_optype.cx),
                      LAMBDA inst_destr :
                [res |-> chain(inst_destr.val, body_optype.res.val),
                 cx |-> inst_destr.cx])))

\* the for loop over arms of Op::Case from arm i on
case_loop(arms, i, head_ot, m, cx) ==
    IF i > Len(arms) THEN [res |-> Ok(head_ot), cx |-> cx]
    ELSE Bind(infer_case_arm(arms[i], m, cx), LAMBDA arm_ot :
        IF ~arm_ot.res.ok THEN arm_ot
        ELSE Bind(augment_op_bw(head_ot, arm_ot.res.val, arm_ot.cx), LAMBDA bw :
            Bind(mgu_OpType(bw.val[1], bw.val[2]), LAMBDA s :
                IF ~s.ok THEN [res |-> s, cx |-> bw.cx]
                ELSE case_loop(arms, i + 1, apply_OpType(bw.val[1], s.val), m, bw.cx))))

infer_op(op, m, cx) ==
    CASE op.k = "Literal" -> [res |-> Ok(lit_optype(op.value)), cx |-> cx]
      [] op.k = "Name" ->
            Bind(lookup_op_optype(m, op.value), LAMBDA o :
                IF ~o.ok THEN [res |-> Err(UnknownOp(op.value)), cx |-> cx]
                ELSE Bind(instantiate_op(o.val, cx), LAMBDA i :
                    [res |-> Ok(i.val), cx |-> i.cx]))
      [] op.k = "Quote" ->
            Bind(infer(op.value, m, cx), LAMBDA quoted_optype :
                IF ~quoted_optype.res.ok THEN quoted_optype
                ELSE [res |-> Ok(OpType(<<>>, <<OpT(quoted_optype.res.val)>>)),
                      cx |-> quoted_optype.cx])
      [] op.k = "Case" ->
            Bind(lookup_constructor_data_def(m, op.head_arm.constr),
                 LAMBDA matched_data_type :
                IF ~matched_data_type.ok
                THEN [res |-> Err(UnknownConstructor(op.head_arm.constr)), cx |-> cx]
                ELSE LET matched_data_type_constr_names ==
                             DOMAIN matched_data_type.val.constrs
                         covered_constr_names ==
                             {op.head_arm.constr}
                             \cup {op.arms[i].constr : i \in DOMAIN op.arms}
                     IN  IF matched_data_type_constr_names # covered_constr_names
                         THEN [res |-> Err(NotAllConstructorsCovered), cx |-> cx]
                         ELSE Bind(infer_case_arm(op.head_arm, m, cx), LAMBDA head_ot :
                                  IF ~head_ot.res.ok THEN head_ot
                                  ELSE case_loop(op.arms, 1, head_ot.res.val, m, head_ot.cx)))

\* the for loop of infer from op i on, acc the signature so far
infer_loop(ops, i, acc, m, cx) ==
    IF i > Len(ops) THEN [res |-> Ok(acc), cx |-> cx]
    ELSE Bind(infer_op(ops[i], m, cx), LAMBDA t :
        IF ~t.res.ok THEN t
        ELSE Bind(chain(acc, t.res.val), LAMBDA c :
            IF ~c.ok THEN [res |-> c, cx |-> t.cx]
            ELSE infer_loop(ops, i + 1, c.val, m, t.cx)))

infer(ops, m, cx) == infer_loop(ops, 1, OpTypeEmpty, m, cx)

\* one iteration of the typecheck loop on a definition that is not skipped:
\* res is what the iteration yields; inf, ann_inst are its locals; n0 and n1 are
\* the numbers of gen_name calls made before instantiate_op and before inf_vs_ann
typecheck_body(m, op_name, cx) ==
    Bind(infer(m.op_defs[op_name].body, m, cx), LAMBDA inf :
        IF ~inf.res.ok
        THEN [res |-> inf.res, cx |-> inf.cx, inf |-> inf.res, ann_inst |-> OpTypeEmpty,
              n0 |-> inf.cx.n, n1 |-> inf.cx.n]
        ELSE Bind(instantiate_op(m.op_defs[op_name].ann, inf.cx), LAMBDA ann_inst :
            Bind(inf_vs_ann(inf.res.val, ann_inst.val, ann_inst.cx), LAMBDA c :
                [res |-> c.res, cx |-> c.cx, inf |-> inf.res,
                 ann_inst |-> ann_inst.val, n0 |-> inf.cx.n, n1 |-> ann_inst.cx.n])))

\* a load of the counter where fetch_add was meant
AtomicLoad(c) == [val |-> c, counter |-> c]

\* AtomicUsize::fetch_add(1, SeqCst) on the shared counter: the value returned
\* and the counter afterwards, in one atomic step
AtomicFetchAdd(c) == [val |-> c, counter |-> c + 1]

----------------------------------------------------------------------------
(* Unification: Type::mgu and Vec::mgu on bounded types                     *)

MaxVecLen == 2

VarNames == {"a", "b", "c"}
MonoNames == {"Int", "Bool"}
Atoms == {Mono(n) : n \in MonoNames} \cup {Poly(v) : v \in VarNames}
SeqsUpTo(S, n) == UNION {[1..m -> S] : m \in 0..n}
ShortStacks == SeqsUpTo(Atoms, 1)
Types ==
    Atoms
    \cup {App(x, y) : x \in Atoms, y \in Atoms}
    \cup {OpT(OpType(p, q)) : p \in ShortStacks, q \in ShortStacks}
VecElems == Atoms \cup {App(Poly("a"), Mono("Int")), App(Poly("b"), Poly("c"))}
Vecs == SeqsUpTo(VecElems, MaxVecLen)

MguCalls ==
    [fn : {"Type::mgu"}, t1 : Types, t2 : Types]
    \cup [fn : {"Vec::mgu"}, t1 : Vecs, t2 : Vecs]

EngineIdle ==
    /\ counter = 0
    /\ todo = {}
    /\ workers = <<>>
    /\ verdict = <<>>
    /\ result = NotReturned

Returned == ret # NotReturned

InitMgu ==
    /\ call \in MguCalls
    /\ ret = NotReturned
    /\ EngineIdle

CallTypeMgu ==
    /\ call.fn = "Type::mgu"
    /\ ret = NotReturned
    /\ ret' = mgu_Type(call.t1, call.t2)
    /\ UNCHANGED <<call, counter, todo, workers, verdict, result>>

CallVecMgu ==
    /\ call.fn = "Vec::mgu"
    /\ ret = NotReturned
    /\ ret' = mgu_Vec(call.t1, call.t2)
    /\ UNCHANGED <<call, counter, todo, workers, verdict, result>>

NextMgu == CallTypeMgu \/ CallVecMgu

SpecMgu == InitMgu /\ [][NextMgu]_vars

ApplyTo(x, s) == IF call.fn = "Type::mgu" THEN apply_Type(x, s) ELSE apply_Vec(x, s)

\* C1: when mgu(t1, t2) succeeds with s, apply(t1, s) = apply(t2, s), and s is
\* idempotent: applying s twice to any type equals applying it once.
MguUnifiesAndIsIdempotent ==
    (call.fn \in {"Type::mgu", "Vec::mgu"} /\ ret.ok) =>
        /\ ApplyTo(call.t1, ret.val) = ApplyTo(call.t2, ret.val)
        /\ \A t \in Types :
              apply_Type(apply_Type(t, ret.val), ret.val) = apply_Type(t, ret.val)

\* a unifier of two sequences that binds two variables, one of them to an App
MguComposedWitness ==
    /\ call.fn = "Vec::mgu" /\ ret.ok
    /\ Cardinality(DOMAIN ret.val) >= 2
    /\ \E v \in DOMAIN ret.val : ret.val[v].k = "App"

----------------------------------------------------------------------------
(* compose on bounded substitutions, each one a substitution mgu can return *)
(* (no variable of its domain occurs in its range)                          *)

SubstVars == {"a", "b"}
SubstRange ==
    {Poly("a"), Poly("b"), Mono("Int"), Mono("Bool"), App(Poly("b"), Mono("Int"))}
Substs ==
    {s \in UNION {[D -> SubstRange] : D \in SUBSET SubstVars} :
        \A v \in DOMAIN s : ftv_Type(s[v]) \cap DOMAIN s = {}}

InitCompose ==
    /\ call \in [fn : {"compose"}, s1 : Substs, s2 : Substs, s3 : Substs]
    /\ ret = NotReturned
    /\ EngineIdle

CallCompose ==
    /\ call.fn = "compose"
    /\ ret = NotReturned
    /\ ret' = Ok([left |-> compose(compose(call.s1, call.s2), call.s3),
                  right |-> compose(call.s1, compose(call.s2, call.s3))])
    /\ UNCHANGED <<call, counter, todo, workers, verdict, result>>

NextCompose == CallCompose

SpecCompose == InitCompose /\ [][NextCompose]_vars

\* C2: compose is associative up to extensional equality: the two groupings of
\* s1, s2, s3 apply identically to every type.
ComposeAssociative ==
    (call.fn = "compose" /\ Returned) =>
        \A t \in Types : apply_Type(t, ret.val.left) = apply_Type(t, ret.val.right)

----------------------------------------------------------------------------
(* chain on bounded signatures                                              *)

MaxStack == 2

ChainAtoms == {Mono("Int"), Poly("a"), Poly("b")}
ChainEnds == SeqsUpTo(ChainAtoms, 1)
ChainMids == SeqsUpTo(ChainAtoms, MaxStack)

InitChain ==
    /\ call \in [fn : {"chain"},
                 ot1 : {OpType(alpha, beta) : alpha \in ChainEnds, beta \in ChainMids},
                 ot2 : {OpType(gamma, delta) : gamma \in ChainMids, delta \in ChainEnds}]
    /\ ret = NotReturned
    /\ EngineIdle

CallChain ==
    /\ call.fn = "chain"
    /\ ret = NotReturned
    /\ ret' = chain(call.ot1, call.ot2)
    /\ UNCHANGED <<call, counter, todo, workers, verdict, result>>

NextChain == CallChain

SpecChain == InitChain /\ [][NextChain]_vars

Dup == OpType(<<Poly("a")>>, <<Poly("a"), Poly("a")>>)
Drop == OpType(<<Poly("a")>>, <<>>)
Identity == OpType(<<Poly("a")>>, <<Poly("a")>>)

----------------------------------------------------------------------------
(* The modules the engine is run on.  Native operations are declared with   *)
(* the "noc" prefix and an empty body.                                      *)

Literal == [k |-> "Literal", value |-> 5]
Name(n) == [k |-> "Name", value |-> n]
Quote(ops) == [k |-> "Quote", value |-> ops]
CaseArm(c, body) == [constr |-> c, body |-> body]
Case(head_arm, arms) == [k |-> "Case", head_arm |-> head_arm, arms |-> arms]
OpDef(ann, body) == [ann |-> ann, body |-> body]

MonoInt == Mono("Int")

DataDefs ==
    [d \in {"Bool", "Unit", "Maybe"} |->
        CASE d = "Bool" ->
                [params |-> <<>>,
                 constrs |-> [c \in {"True", "False"} |-> [params |-> <<>>]]]
          [] d = "Unit" ->
                [params |-> <<>>, constrs |-> [c \in {"MkUnit"} |-> [params |-> <<>>]]]
          [] d = "Maybe" ->
                [params |-> <<"a">>,
                 constrs |-> [c \in {"Nothing", "Just"} |->
                                 [params |-> IF c = "Just" THEN <<Poly("a")>> ELSE <<>>]]]]

Natives ==
    [n \in {"nocadd", "nocneg", "nocmk", "nocuse"} |->
        CASE n = "nocadd" -> OpDef(OpType(<<MonoInt, MonoInt>>, <<MonoInt>>), <<>>)
          [] n = "nocneg" -> OpDef(OpType(<<MonoInt>>, <<MonoInt>>), <<>>)
          [] n = "nocmk"  -> OpDef(OpType(<<>>, <<Poly("a")>>), <<>>)
          [] n = "nocuse" -> OpDef(OpType(<<MonoInt, Mono("Bool")>>, <<>>), <<>>)]

\* the module with the native operations natives and the definitions defs
ModuleOf(natives, defs) ==
    [data_defs |-> DataDefs,
     op_defs |-> [n \in natives \cup DOMAIN defs |->
                     IF n \in DOMAIN defs THEN defs[n] ELSE Natives[n]]]
ModuleWith(defs) == ModuleOf(DOMAIN Natives, defs)

----------------------------------------------------------------------------
(* One definition f checked by one iteration of the typecheck loop, alone   *)
(* on a counter that starts at 0                                            *)

MaxBody == 2

BodyOps ==
    {Literal, Name("dup"), Name("drop"), Name("nocneg"), Name("nocmk"), Name("Just"),
     Quote(<<Name("dup")>>)}
Bodies == SeqsUpTo(BodyOps, MaxBody)
AnnAtoms == {MonoInt, Poly("a"), Poly("b")}
AnnStacks == SeqsUpTo(AnnAtoms, 2)
Anns == {OpType(p, q) : p \in AnnStacks, q \in AnnStacks}

CheckedModule == ModuleWith([n \in {"f"} |-> OpDef(call.ann, call.body)])

InitCheck ==
    /\ call \in [fn : {"typecheck_body"}, ann : Anns, body : Bodies, rev : BOOLEAN]
    /\ ret = NotReturned
    /\ EngineIdle

CallTypecheckBody ==
    /\ call.fn = "typecheck_body"
    /\ ret = NotReturned
    /\ \E r \in {typecheck_body(CheckedModule, "f", Ctx(<<>>, counter, call.rev))} :
          /\ ret' = r
          /\ counter' = counter + r.cx.n
    /\ UNCHANGED <<call, todo, workers, verdict, result>>

NextCheck == CallTypecheckBody

SpecCheck == InitCheck /\ [][NextCheck]_vars

\* what inf_vs_ann unified: the inferred signature padded toward the
\* instantiated annotation, and the unifier
PaddedInf ==
    augment_op_ow(ret.inf.val, ret.ann_inst,
                  [Ctx(<<>>, 0, call.rev) EXCEPT !.n = ret.n1]).val
CheckUnifier == mgu_OpType(PaddedInf, ret.ann_inst)
Checked == call.fn = "typecheck_body" /\ Returned /\ ret.inf.ok

\* C4: annotated pre=[a], post=[a] with an empty body type-checks; and whenever
\* the padded inferred signature and the annotation unify, the check returns
\* AnnInfConflict iff the unifier binds a free variable of the annotation to a
\* type that is not a bare Poly.
AnnotationCheckOutcome ==
    Checked =>
        /\ (call.ann = Identity /\ call.body = <<>>) => ret.res.ok
        /\ CheckUnifier.ok =>
              LET s == CheckUnifier.val
                  forced == {v \in ftv_OpType(ret.ann_inst) \cap DOMAIN s : s[v].k # "Poly"}
              IN  /\ forced # {} => (~ret.res.ok /\ ret.res.err.kind = "AnnInfConflict")
                  /\ forced = {} => ret.res.ok

\* annotated pre=[a], post=[a], the body an integer-only operation: AnnInfConflict
AnnotationConflictWitness ==
    /\ Checked
    /\ call.ann = Identity /\ call.body = <<Name("nocneg")>>
    /\ ~ret.res.ok /\ ret.res.err.kind = "AnnInfConflict"

RECURSIVE Subterms(_)
Subterms(t) ==
    {t} \cup
    CASE t.k = "App" -> Subterms(t.lhs) \cup Subterms(t.rhs)
      [] t.k = "Op" -> UNION {Subterms(t.op.pre[i]) : i \in DOMAIN t.op.pre}
                       \cup UNION {Subterms(t.op.post[i]) : i \in DOMAIN t.op.post}
      [] OTHER -> {}
SubtermsOp(o) == Subterms(OpT(o)) \ {OpT(o)}

\* o is a substitution instance of general
IsInstance(o, general) ==
    \E theta \in [ftv_OpType(general) -> SubtermsOp(o)] : apply_OpType(general, theta) = o

\* C8: whenever the annotation check returns Ok, the annotation is a
\* substitution instance of the padded inferred signature.
AcceptedAnnotationIsInstance ==
    (Checked /\ ret.res.ok) => IsInstance(ret.ann_inst, PaddedInf)

----------------------------------------------------------------------------
(* infer_op on Case expressions over the data types Bool, Unit and Maybe    *)

MaxArms == 2

ArmConstrs == {"True", "False", "MkUnit", "Nothing", "Just", "Extra"}
ArmBodies == {<<>>, <<Name("drop")>>}
Arms == {CaseArm(c, body) : c \in ArmConstrs, body \in ArmBodies}
Cases == {Case(h, as) : h \in Arms, as \in SeqsUpTo(Arms, MaxArms)}

InitCase ==
    /\ call \in [fn : {"infer_op"}, op : Cases, rev : BOOLEAN]
    /\ ret = NotReturned
    /\ EngineIdle

CallInferOp ==
    /\ call.fn = "infer_op"
    /\ ret = NotReturned
    /\ \E r \in {infer_op(call.op, ModuleWith(<<>>), Ctx(<<>>, counter, call.rev))} :
          /\ ret' = r
          /\ counter' = counter + r.cx.n
    /\ UNCHANGED <<call, todo, workers, verdict, result>>

NextCase == CallInferOp

SpecCase == InitCase /\ [][NextCase]_vars

Declared == constructor_names(ModuleWith(<<>>))
\* the constructors the arms name, head first
Named == <<call.op.head_arm.constr>> \o [i \in DOMAIN call.op.arms |-> call.op.arms[i].constr]
TimesNamed(c) == Cardinality({i \in DOMAIN Named : Named[i] = c})
HeadOwnerConstrs == DOMAIN constr_to_data_map(ModuleWith(<<>>))[Named[1]].constrs
CaseInferred == call.fn = "infer_op" /\ Returned

\* C5: when every arm names a declared constructor, the exhaustiveness check
\* passes only if every constructor of the head arm's data type is named by
\* exactly one arm and no other constructor is named; otherwise the case fails
\* with NotAllConstructorsCovered before any arm is inferred.
ExhaustiveExactlyOnce ==
    (CaseInferred /\ \A i \in DOMAIN Named : Named[i] \in Declared) =>
        LET exact == /\ \A c \in HeadOwnerConstrs : TimesNamed(c) = 1
                     /\ \A i \in DOMAIN Named : Named[i] \in HeadOwnerConstrs
        IN  ~exact => (ret.res = Err(NotAllConstructorsCovered) /\ ret.cx.n = 0)

\* C6: a Case in which any arm names a constructor declared nowhere fails with
\* UnknownConstructor naming such a constructor.
UnknownArmIsUnknownConstructor ==
    (CaseInferred /\ \E i \in DOMAIN Named : Named[i] \notin Declared) =>
        \E i \in DOMAIN Named :
            /\ Named[i] \notin Declared
            /\ ret.res = Err(UnknownConstructor(Named[i]))

----------------------------------------------------------------------------
(* augment_op_bw on bounded pairs of signatures                             *)

AugAtoms == {MonoInt, Poly("a")}
AugStacks == SeqsUpTo(AugAtoms, MaxStack)
AugOps == {OpType(p, q) : p \in AugStacks, q \in AugStacks}

InitAugment ==
    /\ call \in [fn : {"augment_op_bw"}, o1 : AugOps, o2 : AugOps]
    /\ ret = NotReturned
    /\ EngineIdle

CallAugmentBw ==
    /\ call.fn = "augment_op_bw"
    /\ ret = NotReturned
    /\ \E r \in {augment_op_bw(call.o1, call.o2, Ctx(<<>>, counter, FALSE))} :
          /\ ret' = r
          /\ counter' = counter + r.cx.n
    /\ UNCHANGED <<call, todo, workers, verdict, result>>

NextAugment == CallAugmentBw

SpecAugment == InitAugment /\ [][NextAugment]_vars

\* C10: the two signatures augment_op_bw returns have equal pre lengths and
\* equal post lengths.
AugmentBwSameLengths ==
    (call.fn = "augment_op_bw" /\ Returned) =>
        /\ Len(ret.val[1].pre) = Len(ret.val[2].pre)
        /\ Len(ret.val[1].post) = Len(ret.val[2].post)

----------------------------------------------------------------------------
(* typecheck.  The loop visits the op_defs in the map's iteration order,    *)
(* any order here.  Each gen_name call of a definition's check is one       *)
(* atomic fetch_add on the shared counter; up to MaxWorkers checks are in   *)
(* flight at once (one is the loop as written: the next definition starts   *)
(* when the previous one has finished).                                     *)

MaxWorkers == 2

UserDefs ==
    [n \in {"wrap", "mix", "bad"} |->
        CASE n = "wrap" -> OpDef(OpType(<<Poly("_gen_0")>>,
                                        <<App(Mono("Maybe"), Poly("_gen_0"))>>),
                                 <<Name("Just")>>)
          [] n = "mix" -> OpDef(OpTypeEmpty, <<Name("nocmk"), Name("nocmk"), Name("nocuse")>>)
          [] n = "bad" -> OpDef(OpType(<<>>, <<Poly("a")>>), <<Literal>>)]

TheModule == ModuleOf({"nocmk", "nocuse"}, [n \in call.defs |-> UserDefs[n]])

InFlight == DOMAIN workers \ DOMAIN verdict

\* the check of definition d on the counter values it has drawn so far
Run(d) == typecheck_body(TheModule, d, Ctx(workers[d], counter, call.rev))

Init ==
    /\ call \in [fn : {"typecheck"}, defs : SUBSET (DOMAIN UserDefs) \ {{}}, rev : BOOLEAN]
    /\ ret = NotReturned
    /\ counter = 0
    /\ todo = DOMAIN TheModule.op_defs
    /\ workers = <<>>
    /\ verdict = <<>>
    /\ result = NotReturned

\* the loop reaches a definition whose name starts with "noc": continue
SkipNoc(d) ==
    /\ result = NotReturned
    /\ d \in todo
    /\ starts_with(d, "noc")
    /\ todo' = todo \ {d}
    /\ UNCHANGED <<call, ret, counter, workers, verdict, result>>

\* the loop reaches any other definition: its check starts
StartCheck(d) ==
    /\ result = NotReturned
    /\ d \in todo
    /\ ~starts_with(d, "noc")
    /\ Cardinality(InFlight) < MaxWorkers
    /\ todo' = todo \ {d}
    /\ workers' = [x \in DOMAIN workers \cup {d} |-> IF x = d THEN <<>> ELSE workers[x]]
    /\ UNCHANGED <<call, ret, counter, verdict, result>>

\* the check of d makes its next gen_name call
GenName(d) ==
    /\ d \in InFlight
    /\ Run(d).cx.n > Len(workers[d])
    /\ \E f \in {AtomicFetchAdd(counter)} :
          /\ workers' = [workers EXCEPT ![d] = Append(@, f.val)]
          /\ counter' = f.counter
    /\ UNCHANGED <<call, ret, todo, verdict, result>>

\* the check of d ends; the first error is what typecheck returns
FinishCheck(d) ==
    /\ d \in InFlight
    /\ \E r \in {Run(d)} :
          /\ r.cx.n <= Len(workers[d])
          /\ verdict' = [x \in DOMAIN verdict \cup {d} |->
                             IF x = d THEN [r EXCEPT !.cx = r.cx.n] ELSE verdict[x]]
          /\ result' = IF result = NotReturned /\ ~r.res.ok THEN r.res ELSE result
    /\ UNCHANGED <<call, ret, counter, todo, workers>>

\* the loop is over: Ok(())
ReturnOk ==
    /\ call.fn = "typecheck"
    /\ result = NotReturned
    /\ todo = {}
    /\ InFlight = {}
    /\ result' = Ok(<<>>)
    /\ UNCHANGED <<call, ret, counter, todo, workers, verdict>>

Next ==
    \/ \E d \in todo : SkipNoc(d)
    \/ \E d \in todo : StartCheck(d)
    \/ \E d \in InFlight : GenName(d)
    \/ \E d \in InFlight : FinishCheck(d)
    \/ ReturnOk

Spec == Init /\ [][Next]_vars

NoCheck(d) == \E n \in 3..Len(d) : SubSeq(d, 1, 3) = "noc"
Checkable == {d \in DOMAIN TheModule.op_defs : ~NoCheck(d)}
\* d's check run alone on a counter that starts at 0 accepts d
PassesAlone(d) == typecheck_body(TheModule, d, Ctx(<<>>, 0, FALSE)).res.ok

\* C7: typecheck returns Ok iff every definition whose name does not start
\* with "noc" passes its check; "noc" definitions are never inferred; and whether
\* a definition is accepted does not depend on the counter values its check
\* drew, in any visiting order and any interleaving of the checks.
TypecheckOutcomeIndependent ==
    call.fn = "typecheck" =>
        /\ \A d \in DOMAIN workers : ~NoCheck(d)
        /\ \A d \in DOMAIN verdict : verdict[d].res.ok = PassesAlone(d)
        /\ result.ok => (todo = {} /\ \A d \in Checkable : PassesAlone(d))
        /\ (result # NotReturned /\ ~result.ok) => \E d \in Checkable : ~PassesAlone(d)
        /\ (todo = {} /\ InFlight = {} /\ \A d \in Checkable : PassesAlone(d)) =>
              (result = NotReturned \/ result.ok)

\* typecheck returned Ok after a check drew counter values that another check's
\* calls interleaved with
InterleavedOkWitness ==
    /\ call.fn = "typecheck" /\ result.ok
    /\ \E d \in DOMAIN verdict :
          /\ Len(workers[d]) >= 2
          /\ workers[d][Len(workers[d])] - workers[d][1] >= Len(workers[d])

\* every gen_name call made so far: <<definition, index of the call>>
Calls == UNION {{<<d, i>> : i \in DOMAIN workers[d]} : d \in DOMAIN workers}
Drawn(c) == workers[c[1]][c[2]]
\* the variable name call c returned
Returned_name(c) ==
    gen_name([Ctx(workers[c[1]], 0, FALSE) EXCEPT !.n = c[2] - 1]).val.name

\* the calls instantiate_op(ann) made in the finished check of d
InstCalls(d) == {<<d, i>> : i \in (verdict[d].n0 + 1)..verdict[d].n1}
EarlierCalls(d) ==
    {c \in Calls : \A mine \in InstCalls(d) : Drawn(c) < Drawn(mine)}

InstantiateIsFreshRenaming(d) ==
    LET ann == TheModule.op_defs[d].ann
        inst == verdict[d].ann_inst
    IN  /\ \E rho \in [ftv_OpType(ann) -> ftv_OpType(inst)] :
              /\ \A x, y \in ftv_OpType(ann) : x # y => rho[x] # rho[y]
              /\ apply_OpType(ann, [x \in ftv_OpType(ann) |-> Poly(rho[x])]) = inst
        /\ ftv_OpType(inst) = {Returned_name(c) : c \in InstCalls(d)}
        /\ InstCalls(d) # {} =>
              ftv_OpType(inst) \cap {Returned_name(c) : c \in EarlierCalls(d)} = {}

FreshNames ==
    call.fn = "typecheck" =>
        /\ \A c1, c2 \in Calls : c1 # c2 => Returned_name(c1) # Returned_name(c2)
        /\ \A c \in Calls : Drawn(c) < counter
        /\ \A d \in DOMAIN verdict : verdict[d].inf.ok => InstantiateIsFreshRenaming(d)

====
